---- MODULE Spec2Model ----
(***************************************************************************)
(* Model of Resources/types.h: the binary-template type declarations       *)
(* (Vector2 .. BoundingSphere, Normal11_11_10ToString, StringOffset) and   *)
(* their read functions, run by a template host that owns one read cursor. *)
(*                                                                         *)
(* File positions are 64-bit in the host and u32 in the template code, so  *)
(* both are wider than the model checker's integers.  A number is kept as  *)
(* a pair of digits in base 2^16: [hi, lo] stands for hi * 2^16 + lo, with *)
(* 0 <= lo < 2^16.  A u32 has hi < 2^16 as well.                           *)
(***************************************************************************)
EXTENDS Integers, Sequences, FiniteSets, TLC

VARIABLES
    cursor,     \* the host's read cursor (a file position)
    fileSize,   \* size of the file being inspected
    pc,         \* where the host is in the declaration of the current struct
    kind,       \* the struct type being declared, "none" when idle
    start,      \* the cursor when the declaration began
    todo,       \* fixed-layout structs: the primitive fields still to read
    ops,        \* the host calls the declaration has made so far, in order
    base,       \* StringOffset: the struct's argument
    so,         \* StringOffset: the fields Offset and Value of the instance
    returnPos,  \* StringOffset: the local, [set, pos]
    packed,     \* Normal11_11_10ToString: the field Value
    shown,      \* what the last call of the read function returned
    results     \* every value the read function returned for this instance

vars == <<cursor, fileSize, pc, kind, start, todo, ops, base, so, returnPos,
          packed, shown, results>>

----------------------------------------------------------------------------
\* Bounds of the model.

\* Longest text (without its terminator) a string read returns.
MaxStrLen == 2

\* How many codes next to each boundary code of a packed field are decoded.
Spread == 1

----------------------------------------------------------------------------
\* Wide numbers.

Half == 2^16

Num(h, l) == [hi |-> h, lo |-> l]

\* n is a natural number below 2^31
Small(n) == Num(n \div Half, n % Half)

Add(a, b) ==
    LET s == a.lo + b.lo
    IN  Num(a.hi + b.hi + (s \div Half), s % Half)

Less(a, b) == a.hi < b.hi \/ (a.hi = b.hi /\ a.lo < b.lo)

Leq(a, b) == ~Less(b, a)

\* Conversion of a 64-bit position or sum to u32: the low 32 bits.
ToU32(a) == Num(a.hi % Half, a.lo)

\* u32 + u32 in the template language is a u32.
U32Add(a, b) == ToU32(Add(a, b))

IsZero(a) == a.hi = 0 /\ a.lo = 0

----------------------------------------------------------------------------
\* Primitive aliases and the fixed-layout structs.

\* SizeOf with the half float read as wide as a float.
SizeOf_HalfAsFloat(t) ==
    CASE t = "f32" -> 4
      [] t = "f16" -> 4
      [] t = "u32" -> 4

\* Byte width of the host primitive behind each alias.
SizeOf(t) ==
    CASE t = "f32" -> 4
      [] t = "f16" -> 2
      [] t = "u32" -> 4

Primitives == {"f32", "f16", "u32"}

\* The declared members of each struct, in declaration order: <<name, type>>.
Members(t) ==
    CASE t = "Vector2"        -> << <<"X", "f32">>, <<"Y", "f32">> >>
      [] t = "Vector2Half"    -> << <<"X", "f16">>, <<"Y", "f16">> >>
      [] t = "Vector3"        -> << <<"X", "f32">>, <<"Y", "f32">>, <<"Z", "f32">> >>
      [] t = "Vector4"        -> << <<"X", "f32">>, <<"Y", "f32">>, <<"Z", "f32">>,
                                    <<"W", "f32">> >>
      [] t = "BoundingBox"    -> << <<"Min", "Vector3">>, <<"Max", "Vector3">> >>
      [] t = "BoundingSphere" -> << <<"Center", "Vector3">>, <<"Radius", "f32">> >>
      [] t = "Normal11_11_10ToString" -> << <<"Value", "u32">> >>

FixedTypes == {"Vector2", "Vector2Half", "Vector3", "Vector4", "BoundingBox",
               "BoundingSphere", "Normal11_11_10ToString"}

\* The primitive reads a declaration of type t makes, in order: each a
\* <<path, primitive>>, nested members flattened depth first.
RECURSIVE Flatten(_, _)
Flatten(path, t) ==
    IF t \in Primitives
    THEN << <<path, t>> >>
    ELSE LET RECURSIVE Over(_)
             Over(ms) ==
                 IF ms = << >> THEN << >>
                 ELSE Flatten(path \o <<Head(ms)[1]>>, Head(ms)[2]) \o Over(Tail(ms))
         IN  Over(Members(t))

----------------------------------------------------------------------------
\* The packed-normal read function, ReadNormal11_11_10.

FULL_WIDTH == 32

X_POS == 0
X_WIDTH == 11
X_LSHIFT == FULL_WIDTH - X_POS - X_WIDTH
X_RSHIFT == FULL_WIDTH - X_WIDTH
\* X_DOT as the symmetric divisor 2^(W-1).
X_DOT_PowerOfTwo == 2^(X_WIDTH - 1)

X_DOT == 2^(X_WIDTH - 1) - 1

Y_POS == X_POS + X_WIDTH
Y_WIDTH == 11
Y_LSHIFT == FULL_WIDTH - Y_POS - Y_WIDTH
Y_RSHIFT == FULL_WIDTH - Y_WIDTH
Y_DOT == 2^(Y_WIDTH - 1) - 1

Z_POS == Y_POS + Y_WIDTH
Z_WIDTH == 10
Z_LSHIFT == FULL_WIDTH - Z_POS - Z_WIDTH
Z_RSHIFT == FULL_WIDTH - Z_WIDTH
Z_DOT == 2^(Z_WIDTH - 1) - 1

\* packed << n on a u32: the bits that leave the word are lost.
Shl(w, n) ==
    IF n >= 16
    THEN Num((w.lo % 2^(32 - n)) * 2^(n - 16), 0)
    ELSE Num((w.hi % 2^(16 - n)) * 2^n + (w.lo \div 2^(16 - n)),
             (w.lo % 2^(16 - n)) * 2^n)

\* (int) of a u32: the same 32 bits read as two's complement.
ToInt(w) ==
    IF w.hi >= 2^15 THEN (w.hi - Half) * Half + w.lo ELSE w.hi * Half + w.lo

\* Sar as the shift of an unsigned word: zeros come in from the left.
Sar_Logical(i, n) ==
    IF i < 0 THEN (i \div 2^n) + 2^(32 - n) ELSE i \div 2^n

\* >> on an int: the arithmetic shift, which rounds towards minus infinity.
Sar(i, n) == i \div 2^n

\* (float)a / (float)b: the quotient, kept exact as numerator and divisor.
FDiv(a, b) == [num |-> a, den |-> b]

\* The three floats the function formats with "[%.6f, %.6f, %.6f]", and the
\* three ints they come from.
ReadNormal11_11_10(value) ==
    LET xInt == Sar(ToInt(Shl(value, X_LSHIFT)), X_RSHIFT)
        yInt == Sar(ToInt(Shl(value, Y_LSHIFT)), Y_RSHIFT)
        zInt == Sar(ToInt(Shl(value, Z_LSHIFT)), Z_RSHIFT)
    IN  [xInt |-> xInt, yInt |-> yInt, zInt |-> zInt,
         x |-> FDiv(xInt, X_DOT), y |-> FDiv(yInt, Y_DOT), z |-> FDiv(zInt, Z_DOT)]

----------------------------------------------------------------------------
\* The StringOffset read function.

NoText == << >>

\* StringOffsetToString without its test of Offset.
StringOffsetToString_NoTest(value) ==
    IF value.present THEN [state |-> "ok", val |-> value.Value]
    ELSE [state |-> "undefined", val |-> NoText]

StringOffsetToString(value) ==
    IF IsZero(value.Offset) THEN [state |-> "ok", val |-> NoText]
    ELSE IF value.present THEN [state |-> "ok", val |-> value.Value]
    ELSE [state |-> "undefined", val |-> NoText]

----------------------------------------------------------------------------
\* Inputs: the files and words the host is run on.

\* Codes of a W-bit field: those within Spread of 0, of the largest positive
\* code, of the smallest negative code and of -1.
FieldCodes(W) ==
    (0 .. Spread)
      \cup ((2^(W - 1) - 1 - Spread) .. (2^(W - 1) + Spread))
      \cup ((2^W - 1 - Spread) .. (2^W - 1))

\* The u32 whose bits [0,11), [11,22), [22,32) hold the codes x, y, z.
WordOf(x, y, z) == Num((y \div 32) + z * 64, x + (y % 32) * 2048)

Words ==
    {WordOf(x, y, z) : x \in FieldCodes(11), y \in FieldCodes(11), z \in FieldCodes(10)}

\* Positions a declaration starts at; 2^32 - 4 and 2^32 + 8 lie in a file
\* larger than 4 GiB.
Starts == {Small(0), Small(16), Small(62), Num(Half - 1, Half - 4), Num(Half, 8)}

FileSizes == {Small(64), Num(Half, 64)}

\* Arguments of StringOffset.
Bases == {Small(0), Small(16), Num(2^15, 0), Num(Half - 1, Half - 1)}

\* Values of the Offset field.
Offsets == {Small(0), Small(1), Small(8), Num(Half - 1, Half - 16)}

\* Texts found in the file where nothing else is known of its bytes, as
\* sequences of non-zero bytes (here the codes of 'a' and 'b').
RECURSIVE TextsOfLen(_)
TextsOfLen(n) ==
    IF n = 0 THEN {<< >>}
    ELSE {<<c>> \o t : c \in {97, 98}, t \in TextsOfLen(n - 1)}

Texts == UNION {TextsOfLen(n) : n \in 0 .. MaxStrLen}

----------------------------------------------------------------------------
\* The host: reads advance the cursor and fault past the end of the file,
\* a seek outside the file faults, a fault ends the parse where it stands.

FTell == cursor

CanRead(n) == Leq(Add(cursor, Small(n)), fileSize)

CanSeek(pos) == Leq(pos, fileSize)

Call(op, field, at, n) == [op |-> op, field |-> field, at |-> at, n |-> n]

NoReturnPos == [set |-> FALSE, pos |-> Small(0)]

NoStringOffset == [Offset |-> Small(0), present |-> FALSE, Value |-> NoText]

NotShown == [state |-> "none", val |-> NoText]

Init ==
    /\ fileSize \in FileSizes
    /\ cursor \in {s \in Starts : Leq(s, fileSize)}
    /\ pc = "idle"
    /\ kind = "none"
    /\ start = Small(0)
    /\ todo = << >>
    /\ ops = << >>
    /\ base = Small(0)
    /\ so = NoStringOffset
    /\ returnPos = NoReturnPos
    /\ packed = Small(0)
    /\ shown = NotShown
    /\ results = {}

\* The host moves on to another place of the file between declarations, and
\* while a finished instance is on display.
HostSeek ==
    /\ pc \in {"idle", "view"}
    /\ \E s \in Starts : Leq(s, fileSize) /\ s # cursor /\ cursor' = s
    /\ UNCHANGED <<fileSize, pc, kind, start, todo, ops, base, so, returnPos,
                   packed, shown, results>>

----------------------------------------------------------------------------
\* Declaring a fixed-layout struct: its members are read one after another.

DeclareFixed ==
    /\ pc = "idle"
    /\ \E t \in FixedTypes :
          /\ kind' = t
          /\ todo' = Flatten(<< >>, t)
    /\ start' = cursor
    /\ pc' = "fields"
    /\ UNCHANGED <<cursor, fileSize, ops, base, so, returnPos, packed, shown, results>>

\* f32 X; and the like: the contents of a float are not modelled.
ReadFloat ==
    /\ pc = "fields" /\ todo # << >> /\ Head(todo)[2] \in {"f32", "f16"}
    /\ CanRead(SizeOf(Head(todo)[2]))
    /\ ops' = Append(ops, Call("read", Head(todo)[1], cursor, SizeOf(Head(todo)[2])))
    /\ cursor' = Add(cursor, Small(SizeOf(Head(todo)[2])))
    /\ todo' = Tail(todo)
    /\ pc' = IF Tail(todo) = << >> THEN "done" ELSE "fields"
    /\ UNCHANGED <<fileSize, kind, start, base, so, returnPos, packed, shown, results>>

\* u32 Value; of Normal11_11_10ToString.
ReadPacked ==
    /\ pc = "fields" /\ todo # << >> /\ Head(todo)[2] = "u32"
    /\ CanRead(SizeOf("u32"))
    /\ \E w \in Words : packed' = w
    /\ ops' = Append(ops, Call("read", Head(todo)[1], cursor, SizeOf("u32")))
    /\ cursor' = Add(cursor, Small(SizeOf("u32")))
    /\ todo' = Tail(todo)
    /\ pc' = IF Tail(todo) = << >> THEN "done" ELSE "fields"
    /\ UNCHANGED <<fileSize, kind, start, base, so, returnPos, shown, results>>

\* A member that does not fit before the end of the file.
ReadPastEnd ==
    /\ pc = "fields" /\ todo # << >>
    /\ ~CanRead(SizeOf(Head(todo)[2]))
    /\ ops' = Append(ops, Call("read", Head(todo)[1], cursor, SizeOf(Head(todo)[2])))
    /\ pc' = "faulted"
    /\ UNCHANGED <<cursor, fileSize, kind, start, todo, base, so, returnPos,
                   packed, shown, results>>

----------------------------------------------------------------------------
\* Declaring a StringOffset( base ): the struct body, one statement a step.

DeclareStringOffset ==
    /\ pc = "idle"
    /\ \E b \in Bases : base' = b
    /\ kind' = "StringOffset"
    /\ start' = cursor
    /\ pc' = "so_Offset"
    /\ UNCHANGED <<cursor, fileSize, todo, ops, so, returnPos, packed, shown, results>>

\* u32 Offset;
ReadOffset ==
    /\ pc = "so_Offset"
    /\ CanRead(SizeOf("u32"))
    /\ \E o \in Offsets : so' = [so EXCEPT !.Offset = o]
    /\ ops' = Append(ops, Call("read", <<"Offset">>, cursor, SizeOf("u32")))
    /\ cursor' = Add(cursor, Small(SizeOf("u32")))
    /\ pc' = "so_if"
    /\ UNCHANGED <<fileSize, kind, start, todo, base, returnPos, packed, shown, results>>

ReadOffsetPastEnd ==
    /\ pc = "so_Offset"
    /\ ~CanRead(SizeOf("u32"))
    /\ ops' = Append(ops, Call("read", <<"Offset">>, cursor, SizeOf("u32")))
    /\ pc' = "faulted"
    /\ UNCHANGED <<cursor, fileSize, kind, start, todo, base, so, returnPos,
                   packed, shown, results>>

\* HasString as a condition that always holds.
HasString_Always(offset) == TRUE

\* The condition of: if ( Offset != 0 )
HasString(offset) == ~IsZero(offset)

IfOffset ==
    /\ pc = "so_if"
    /\ pc' = IF HasString(so.Offset) THEN "so_FTell" ELSE "done"
    /\ UNCHANGED <<cursor, fileSize, kind, start, todo, ops, base, so, returnPos,
                   packed, shown, results>>

\* LocalU32 as if the local were as wide as a position.
LocalU32_Wide(pos) == pos

\* The value a local u32 takes when it is initialised with a position.
LocalU32(pos) == ToU32(pos)

\* local u32 returnPos = FTell();
SaveReturnPos ==
    /\ pc = "so_FTell"
    /\ returnPos' = [set |-> TRUE, pos |-> LocalU32(FTell)]
    /\ ops' = Append(ops, Call("tell", << >>, cursor, 0))
    /\ pc' = "so_FSeek"
    /\ UNCHANGED <<cursor, fileSize, kind, start, todo, base, so, packed, shown, results>>

\* The argument of: FSeek( base + Offset )
SeekTarget(b, offset) == U32Add(b, offset)

\* FSeek( base + Offset );
SeekToString ==
    /\ pc = "so_FSeek"
    /\ CanSeek(SeekTarget(base, so.Offset))
    /\ ops' = Append(ops, Call("seek", << >>, SeekTarget(base, so.Offset), 0))
    /\ cursor' = SeekTarget(base, so.Offset)
    /\ pc' = "so_Value"
    /\ UNCHANGED <<fileSize, kind, start, todo, base, so, returnPos, packed, shown, results>>

SeekOutsideFile ==
    /\ pc = "so_FSeek"
    /\ ~CanSeek(SeekTarget(base, so.Offset))
    /\ ops' = Append(ops, Call("seek", << >>, SeekTarget(base, so.Offset), 0))
    /\ pc' = "faulted"
    /\ UNCHANGED <<cursor, fileSize, kind, start, todo, base, so, returnPos,
                   packed, shown, results>>

\* The four bytes of the Offset field as they lie in the file.
OffsetBytes(o) == <<o.lo % 256, o.lo \div 256, o.hi % 256, o.hi \div 256>>

\* The bytes of the file from the cursor on that the declaration has already
\* read: the rest of its own Offset field when the cursor lies inside it.
KnownBytes ==
    LET inside == {j \in 0 .. 3 : Add(start, Small(j)) = cursor}
    IN  IF inside = {} THEN << >>
        ELSE SubSeq(OffsetBytes(so.Offset), 1 + CHOOSE j \in inside : TRUE, 4)

HasTerminator(bytes) == \E i \in 1 .. Len(bytes) : bytes[i] = 0

\* The bytes before the first terminator.
UpToTerminator(bytes) ==
    SubSeq(bytes, 1, (CHOOSE i \in 1 .. Len(bytes) :
                         bytes[i] = 0 /\ \A j \in 1 .. i - 1 : bytes[j] # 0) - 1)

\* The texts the file can hold at the cursor.
TextsAtCursor ==
    IF HasTerminator(KnownBytes) THEN {UpToTerminator(KnownBytes)}
    ELSE {KnownBytes \o t : t \in Texts}

\* string Value; the text at the cursor up to and with its terminator.
ReadValue ==
    /\ pc = "so_Value"
    /\ \E t \in TextsAtCursor :
          /\ CanRead(Len(t) + 1)
          /\ so' = [so EXCEPT !.present = TRUE, !.Value = t]
          /\ ops' = Append(ops, Call("string", <<"Value">>, cursor, Len(t) + 1))
          /\ cursor' = Add(cursor, Small(Len(t) + 1))
    /\ pc' = "so_restore"
    /\ UNCHANGED <<fileSize, kind, start, todo, base, returnPos, packed, shown, results>>

\* No terminator between the cursor and the end of the file.
ReadValuePastEnd ==
    /\ pc = "so_Value"
    /\ ~HasTerminator(KnownBytes)
    /\ ops' = Append(ops, Call("string", <<"Value">>, cursor, 0))
    /\ pc' = "faulted"
    /\ UNCHANGED <<cursor, fileSize, kind, start, todo, base, so, returnPos,
                   packed, shown, results>>

\* RestoreCursor without its seek.
RestoreCursor_NoSeek ==
    /\ pc = "so_restore"
    /\ pc' = "done"
    /\ UNCHANGED <<cursor, fileSize, kind, start, todo, ops, base, so, returnPos,
                   packed, shown, results>>

\* FSeek( returnPos );
RestoreCursor ==
    /\ pc = "so_restore"
    /\ CanSeek(returnPos.pos)
    /\ ops' = Append(ops, Call("seek", << >>, returnPos.pos, 0))
    /\ cursor' = returnPos.pos
    /\ pc' = "done"
    /\ UNCHANGED <<fileSize, kind, start, todo, base, so, returnPos, packed, shown, results>>

----------------------------------------------------------------------------
\* After the declaration: the instance is displayed through its read function.

\* The host goes on; the finished instance stays on display.
Display ==
    /\ pc = "done"
    /\ pc' = "view"
    /\ UNCHANGED <<cursor, fileSize, kind, start, todo, ops, base, so, returnPos,
                   packed, shown, results>>

\* ShowNormal with the word declared as a file variable: it is read at the
\* cursor instead of taken from the instance.
ShowNormal_FromFile ==
    /\ pc = "view" /\ kind = "Normal11_11_10ToString"
    /\ CanRead(SizeOf("u32"))
    /\ \E w \in Words : shown' = [state |-> "ok", val |-> ReadNormal11_11_10(w)]
    /\ results' = results \cup {shown'}
    /\ cursor' = Add(cursor, Small(SizeOf("u32")))
    /\ UNCHANGED <<fileSize, pc, kind, start, todo, ops, base, so, returnPos, packed>>

\* <read=ReadNormal11_11_10>, called whenever the instance is drawn.
ShowNormal ==
    /\ pc = "view" /\ kind = "Normal11_11_10ToString"
    /\ shown' = [state |-> "ok", val |-> ReadNormal11_11_10(packed)]
    /\ results' = results \cup {shown'}
    /\ UNCHANGED <<cursor, fileSize, pc, kind, start, todo, ops, base, so,
                   returnPos, packed>>

\* <read=StringOffsetToString>
ShowStringOffset ==
    /\ pc = "view" /\ kind = "StringOffset"
    /\ shown' = StringOffsetToString(so)
    /\ results' = results \cup {shown'}
    /\ UNCHANGED <<cursor, fileSize, pc, kind, start, todo, ops, base, so,
                   returnPos, packed>>

\* The host drops the instance (or the faulted parse) and parses again, from
\* one of the places declarations start at.
Reparse ==
    /\ pc \in {"view", "faulted"}
    /\ pc' = "idle"
    /\ kind' = "none"
    /\ start' = Small(0)
    /\ todo' = << >>
    /\ ops' = << >>
    /\ base' = Small(0)
    /\ so' = NoStringOffset
    /\ returnPos' = NoReturnPos
    /\ packed' = Small(0)
    /\ shown' = NotShown
    /\ results' = {}
    /\ \E s \in Starts : Leq(s, fileSize) /\ cursor' = s
    /\ UNCHANGED fileSize

Next ==
    \/ HostSeek
    \/ DeclareFixed
    \/ ReadFloat
    \/ ReadPacked
    \/ ReadPastEnd
    \/ DeclareStringOffset
    \/ ReadOffset
    \/ ReadOffsetPastEnd
    \/ IfOffset
    \/ SaveReturnPos
    \/ SeekToString
    \/ SeekOutsideFile
    \/ ReadValue
    \/ ReadValuePastEnd
    \/ RestoreCursor
    \/ Display
    \/ ShowNormal
    \/ ShowStringOffset
    \/ Reparse

Spec == Init /\ [][Next]_vars

----------------------------------------------------------------------------
\* Vocabulary of the properties.

TwoTo32 == Num(Half, 0)

\* Bit i of a u32, and the unsigned value of its n bits from bit p up.
Bit(w, i) == IF i < 16 THEN (w.lo \div 2^i) % 2 ELSE (w.hi \div 2^(i - 16)) % 2

RECURSIVE BitsValue(_, _, _)
BitsValue(w, p, n) == IF n = 0 THEN 0 ELSE Bit(w, p) + 2 * BitsValue(w, p + 1, n - 1)

\* The value of an n-bit code read as two's complement.
TwosComplement(f, n) == IF f >= 2^(n - 1) THEN f - 2^n ELSE f

Abs(i) == IF i < 0 THEN -i ELSE i

\* u is the wide number a modulo 2^32.
IsLow32Of(u, a) ==
    /\ Less(u, TwoTo32)
    /\ \E k \in 0 .. (a.hi \div Half) : Add(u, Num(k * Half, 0)) = a

NormalShown == kind = "Normal11_11_10ToString" /\ shown.state = "ok"

OpNames == [i \in 1 .. Len(ops) |-> ops[i].op]

IsPrefix(s, t) == Len(s) <= Len(t) /\ \A i \in 1 .. Len(s) : s[i] = t[i]

StartPlus4 == Add(start, Small(4))

\* A StringOffset whose Offset has been read.
OffsetRead == kind = "StringOffset" /\ pc \notin {"so_Offset", "faulted"}

\* A StringOffset whose declaration ran to its end, before the host moves on.
StringOffsetDone == kind = "StringOffset" /\ pc = "done"

----------------------------------------------------------------------------
\* C1: whenever ReadNormal11_11_10 has run on a word, xInt, yInt and zInt are
\* the two's-complement values of bits [0,11), [11,22) and [22,32) of that
\* word, so each is a function of its own field alone, and they lie in
\* [-1024, 1023], [-1024, 1023] and [-512, 511].
C1_FieldsSignExtended ==
    NormalShown =>
        /\ shown.val.xInt = TwosComplement(BitsValue(packed, 0, 11), 11)
        /\ shown.val.yInt = TwosComplement(BitsValue(packed, 11, 11), 11)
        /\ shown.val.zInt = TwosComplement(BitsValue(packed, 22, 10), 10)
        /\ shown.val.xInt \in -1024 .. 1023
        /\ shown.val.yInt \in -1024 .. 1023
        /\ shown.val.zInt \in -512 .. 511

\* A word with a negative X, a positive Y and the most negative Z, decoded.
C1_Witness ==
    /\ NormalShown
    /\ shown.val.xInt = -1023
    /\ shown.val.yInt = 1022
    /\ shown.val.zInt = -512

\* C2: the divisors are 1023, 1023 and 511 and the numerators the signed
\* fields; the zero word gives numerators 0, an X code 0x3FF gives 1023 (the
\* divisor), an X code 0x400 gives -1024, and a numerator is larger in
\* magnitude than its divisor exactly for the most negative code of its field.
C2_Normalisation ==
    NormalShown =>
        /\ shown.val.x.den = 1023 /\ shown.val.y.den = 1023 /\ shown.val.z.den = 511
        /\ shown.val.x.num = TwosComplement(BitsValue(packed, 0, 11), 11)
        /\ shown.val.y.num = TwosComplement(BitsValue(packed, 11, 11), 11)
        /\ shown.val.z.num = TwosComplement(BitsValue(packed, 22, 10), 10)
        /\ IsZero(packed) =>
              shown.val.x.num = 0 /\ shown.val.y.num = 0 /\ shown.val.z.num = 0
        /\ BitsValue(packed, 0, 11) = 1023 =>
              shown.val.x.num = 1023 /\ shown.val.x.num = shown.val.x.den
        /\ BitsValue(packed, 0, 11) = 1024 => shown.val.x.num = -1024
        /\ Abs(shown.val.x.num) > shown.val.x.den <=> BitsValue(packed, 0, 11) = 1024
        /\ Abs(shown.val.y.num) > shown.val.y.den <=> BitsValue(packed, 11, 11) = 1024
        /\ Abs(shown.val.z.num) > shown.val.z.den <=> BitsValue(packed, 22, 10) = 512

\* The X code 0x400 decoded beside the largest positive Z code.
C2_Witness ==
    /\ NormalShown
    /\ BitsValue(packed, 0, 11) = 1024
    /\ shown.val.x.num = -1024
    /\ shown.val.z.num = 511

\* C3: a StringOffset declaration whose Offset is not 0 ends with the cursor at
\* its start position plus 4, for every start position, base and text.
C3_CursorAfterString ==
    (StringOffsetDone /\ ~IsZero(so.Offset)) => cursor = StartPlus4

\* C4: with Offset read as 0 the declaration makes one host call, the 4-byte
\* read of Offset at the start position: no seek, no string read, no saved
\* position; it ends there, with the cursor 4 bytes past its start.
C4_ZeroOffsetOnlyReads ==
    (OffsetRead /\ IsZero(so.Offset)) =>
        /\ ops = <<Call("read", <<"Offset">>, start, 4)>>
        /\ pc \in {"so_if", "done", "view"}
        /\ ~so.present
        /\ ~returnPos.set
        /\ pc \in {"so_if", "done"} => cursor = StartPlus4

\* An Offset of 0 read just below 4 GiB: the declaration ended at 2^32.
C4_Witness ==
    /\ StringOffsetDone
    /\ IsZero(so.Offset)
    /\ start = Num(Half - 1, Half - 4)
    /\ cursor = TwoTo32

\* C5: whenever control leaves a StringOffset declaration that saved the
\* cursor, by its end or by a fault, the cursor is at the saved position.
C5_RestoredOnEveryExit ==
    (kind = "StringOffset" /\ pc \in {"done", "faulted"} /\ returnPos.set) =>
        cursor = returnPos.pos

\* The declared width of each fixed-layout struct and the order of its fields.
DeclaredWidth(t) ==
    CASE t = "Vector2"        -> 8
      [] t = "Vector2Half"    -> 4
      [] t = "Vector3"        -> 12
      [] t = "Vector4"        -> 16
      [] t = "BoundingBox"    -> 24
      [] t = "BoundingSphere" -> 16
      [] t = "Normal11_11_10ToString" -> 4

DeclaredOrder(t) ==
    CASE t = "Vector2"        -> << <<"X">>, <<"Y">> >>
      [] t = "Vector2Half"    -> << <<"X">>, <<"Y">> >>
      [] t = "Vector3"        -> << <<"X">>, <<"Y">>, <<"Z">> >>
      [] t = "Vector4"        -> << <<"X">>, <<"Y">>, <<"Z">>, <<"W">> >>
      [] t = "BoundingBox"    -> << <<"Min", "X">>, <<"Min", "Y">>, <<"Min", "Z">>,
                                    <<"Max", "X">>, <<"Max", "Y">>, <<"Max", "Z">> >>
      [] t = "BoundingSphere" -> << <<"Center", "X">>, <<"Center", "Y">>,
                                    <<"Center", "Z">>, <<"Radius">> >>
      [] t = "Normal11_11_10ToString" -> << <<"Value">> >>

\* C6: a fixed-layout declaration only reads, each read starting where the one
\* before it ended (the first at the start position), so the cursor never
\* moves backwards; when it ends the fields were read in declared order and
\* the cursor is the start position plus the declared width.
C6_FixedLayoutLinearRead ==
    kind \in FixedTypes =>
        /\ \A i \in 1 .. Len(ops) :
              /\ ops[i].op = "read"
              /\ ops[i].at = IF i = 1 THEN start
                             ELSE Add(ops[i - 1].at, Small(ops[i - 1].n))
        /\ pc \in {"fields", "done", "faulted"} => Leq(start, cursor)
        /\ pc \in {"done", "view"} =>
              [i \in 1 .. Len(ops) |-> ops[i].field] = DeclaredOrder(kind)
        /\ pc = "done" => cursor = Add(start, Small(DeclaredWidth(kind)))

\* A BoundingBox read to its end: six floats, 24 bytes.
C6_Witness ==
    /\ kind = "BoundingBox"
    /\ pc = "done"
    /\ Len(ops) = 6
    /\ cursor = Add(start, Small(24))

C9_ValueIffOffset ==
    (kind = "StringOffset" /\ pc \in {"done", "view"}) =>
        /\ so.present <=> ~IsZero(so.Offset)
        /\ shown.state # "undefined"
        /\ shown.state = "ok" =>
              shown.val = IF IsZero(so.Offset) THEN NoText ELSE so.Value

\* The read function ran on an instance without a Value.
C9_Witness ==
    /\ kind = "StringOffset"
    /\ pc = "view"
    /\ shown.state = "ok"
    /\ IsZero(so.Offset)
    /\ ~so.present

\* C10: the saved position is start + 4 modulo 2^32 and the seek target is
\* base + Offset modulo 2^32; so the target is the sum base + Offset only when
\* the sum is below 2^32, and a finished declaration with Offset not 0 has the
\* cursor at start + 4 only when start + 4 is below 2^32.
C10_U32Positions ==
    kind = "StringOffset" =>
        /\ returnPos.set => IsLow32Of(returnPos.pos, StartPlus4)
        /\ Len(ops) >= 3 =>
              /\ IsLow32Of(ops[3].at, Add(base, so.Offset))
              /\ ops[3].at = Add(base, so.Offset)
                    => Less(Add(base, so.Offset), TwoTo32)
        /\ (pc = "done" /\ ~IsZero(so.Offset) /\ cursor = StartPlus4)
              => Less(StartPlus4, TwoTo32)

\* A finished declaration whose seek target wrapped around 2^32.
C10_Witness ==
    /\ StringOffsetDone
    /\ Len(ops) = 5
    /\ ops[3].at # Add(base, so.Offset)
    /\ cursor = StartPlus4

====
